---- MODULE Spec2Model ----
(***************************************************************************)
(* Model of the MTA GTFS-RealTime collector (src/src/mta_data_collector.py) *)
(* : the polling loop of main(), the fetch, the audit insert, the three     *)
(* normalisers and their batch inserts, against a PostgreSQL connection     *)
(* whose statements and commits may fail.                                   *)
(***************************************************************************)
EXTENDS Integers, Sequences, FiniteSets, TLC

\* ---------------------------------------------------------------------------
\* Bounds of the model
\* ---------------------------------------------------------------------------
\* Number of entries of the feed catalog that the model polls (the catalog of
\* the program has 15; the loop treats every entry alike).
NumFeeds == 2
\* Number of end-of-cycle sleeps the model follows.
MaxCycles == 1
\* Longest entity sequence of a decoded FeedMessage.
MaxEntities == 2

\* ---------------------------------------------------------------------------
\* Program constants
\* ---------------------------------------------------------------------------
POLL_INTERVAL == 120

\* Python's None, and a value that is not None: a nullable value is a sequence
\* of length 0 or 1.
None == << >>

Some(x) == <<x>>

\* GTFS_RT_FEEDS: an insertion-ordered dict, iterated in catalog order.
GTFS_RT_FEEDS == [i \in 1..NumFeeds |-> [feed_name |-> i, feed_url |-> 100 + i]]

\* ---------------------------------------------------------------------------
\* Python truth tests used by the collector
\* ---------------------------------------------------------------------------
\* bool() of a protobuf message object.  The generated message classes define
\* neither __bool__ nor __len__, and reading a sub-message field that is not
\* set returns a default instance, never None: the truth test of a message is
\* True whether or not the field is present on the wire.
MsgTruthy(msg) == TRUE

\* A test `is not None' in place of the truth test: true of every integer.
IntTruthy_is_not_none(n) == TRUE

\* bool() of an integer.
IntTruthy(n) == n # 0

\* bool() of a repeated field or of a list.
SeqTruthy(s) == Len(s) > 0

\* str() of an enum value: protobuf enum fields are Python ints.
Str(n) == ToString(n)

\* ---------------------------------------------------------------------------
\* Decoded FeedMessage: default instances of the sub-messages
\* ---------------------------------------------------------------------------
DefaultTrip ==
    [trip_id |-> "", route_id |-> "", start_date |-> "", schedule_relationship |-> 0]

DefaultStopTimeEvent == [delay |-> 0, time |-> 0]

DefaultTripUpdate == [trip |-> DefaultTrip, stop_time_update |-> << >>]

DefaultPosition == [latitude |-> 0, longitude |-> 0, bearing |-> 0, speed |-> 0]

DefaultVehicle ==
    [trip |-> DefaultTrip, vehicle |-> [id |-> ""], stop_id |-> "",
     current_status |-> 2, has_position |-> FALSE, position |-> DefaultPosition,
     timestamp |-> 0]

DefaultTranslatedString == [translation |-> << >>]

DefaultAlert ==
    [header_text |-> DefaultTranslatedString,
     description_text |-> DefaultTranslatedString, cause |-> 1, effect |-> 8]

\* A FeedEntity: `has' is the set of payload fields present on the wire; a field
\* that is not present reads as its default instance.
Entity(has, tu, v, a) ==
    [has |-> has,
     trip_update |-> IF "trip_update" \in has THEN tu ELSE DefaultTripUpdate,
     vehicle |-> IF "vehicle" \in has THEN v ELSE DefaultVehicle,
     alert |-> IF "alert" \in has THEN a ELSE DefaultAlert]

HasField(entity, f) == f \in entity.has

\* ---------------------------------------------------------------------------
\* Sample payloads the feeds deliver
\* ---------------------------------------------------------------------------
StuStopOnly ==
    [stop_id |-> "S1", stop_sequence |-> 1,
     has_arrival |-> FALSE, arrival |-> DefaultStopTimeEvent,
     has_departure |-> FALSE, departure |-> DefaultStopTimeEvent]

StuArrival ==
    [stop_id |-> "S2", stop_sequence |-> 2,
     has_arrival |-> TRUE, arrival |-> [delay |-> 30, time |-> 1704100000],
     has_departure |-> FALSE, departure |-> DefaultStopTimeEvent]

SampleTripUpdate ==
    [trip |-> [trip_id |-> "T1", route_id |-> "R1", start_date |-> "20240101",
               schedule_relationship |-> 0],
     stop_time_update |-> <<StuStopOnly, StuArrival>>]

SampleVehicle ==
    [trip |-> [trip_id |-> "T2", route_id |-> "R2", start_date |-> "20240101",
               schedule_relationship |-> 0],
     vehicle |-> [id |-> "V1"], stop_id |-> "S3", current_status |-> 1,
     has_position |-> FALSE, position |-> DefaultPosition, timestamp |-> 1704100060]

SampleAlert ==
    [header_text |-> [translation |-> <<[text |-> "Delays"], [text |-> "Retrasos"]>>],
     description_text |-> DefaultTranslatedString, cause |-> 3, effect |-> 2]

\* An entity with a trip update only, and one with a vehicle and an alert.
TripEntity == Entity({"trip_update"}, SampleTripUpdate, DefaultVehicle, DefaultAlert)
VehicleAlertEntity == Entity({"vehicle", "alert"}, DefaultTripUpdate, SampleVehicle, SampleAlert)

Entities == {TripEntity, VehicleAlertEntity}

Message(t, es) == [header |-> [timestamp |-> t], entity |-> es]

RECURSIVE SeqsUpTo(_, _)
SeqsUpTo(S, n) ==
    IF n = 0 THEN {<< >>}
    ELSE LET shorter == SeqsUpTo(S, n - 1)
         IN  shorter \cup {Append(s, x) : s \in {t \in shorter : Len(t) = n - 1}, x \in S}

\* The decoded messages the feeds deliver: every entity sequence up to the
\* bound under a header with a timestamp, and one message whose header has none.
Messages ==
    {Message(1704100000, es) : es \in SeqsUpTo(Entities, MaxEntities)}
        \cup {Message(0, <<TripEntity>>)}

\* ---------------------------------------------------------------------------
\* The wider range of payloads: every shape of the optional parts the
\* normalisers test
\* ---------------------------------------------------------------------------
\* A StopTimeEvent that is absent, or present with each combination of a zero
\* and a non-zero time and delay.
StopTimeEvents(t, d) ==
    {[has |-> FALSE, event |-> DefaultStopTimeEvent]}
        \cup {[has |-> TRUE, event |-> [delay |-> dd, time |-> tt]] :
                    tt \in {0, t}, dd \in {0, d}}

WideStus ==
    {[stop_id |-> "S4", stop_sequence |-> 4,
      has_arrival |-> a.has, arrival |-> a.event,
      has_departure |-> dep.has, departure |-> dep.event] :
        a \in StopTimeEvents(1704100000, 30), dep \in StopTimeEvents(1704100090, 45)}

WideTripUpdates ==
    {[trip |-> SampleTripUpdate.trip, stop_time_update |-> s] :
        s \in {<< >>} \cup {<<u>> : u \in WideStus}}

SamplePosition == [latitude |-> 40, longitude |-> -73, bearing |-> 90, speed |-> 5]

WideVehicles ==
    {[SampleVehicle EXCEPT !.has_position = p.has, !.position = p.position,
                           !.timestamp = ts] :
        p \in {[has |-> FALSE, position |-> DefaultPosition],
                [has |-> TRUE, position |-> DefaultPosition],
                [has |-> TRUE, position |-> SamplePosition]},
        ts \in {0, 1704100060}}

WideTexts ==
    {DefaultTranslatedString,
     [translation |-> <<[text |-> "Delays"]>>],
     [translation |-> <<[text |-> "Delays"], [text |-> "Retrasos"]>>]}

WideAlerts ==
    {[header_text |-> h, description_text |-> d, cause |-> 3, effect |-> 2] :
        h \in WideTexts, d \in WideTexts}

\* An entity with no payload at all, and the entities with one payload.
WideEntities ==
    {Entity({}, DefaultTripUpdate, DefaultVehicle, DefaultAlert)}
        \cup {Entity({"trip_update"}, tu, DefaultVehicle, DefaultAlert) : tu \in WideTripUpdates}
        \cup {Entity({"vehicle"}, DefaultTripUpdate, v, DefaultAlert) : v \in WideVehicles}
        \cup {Entity({"alert"}, DefaultTripUpdate, DefaultVehicle, a) : a \in WideAlerts}

WideMessages ==
    Messages \cup {Message(1704100000, <<e>>) : e \in WideEntities}
             \cup {Message(0, << >>)}

\* ---------------------------------------------------------------------------
\* 8) Helper functions
\* ---------------------------------------------------------------------------
\* datetime.utcfromtimestamp(ts): the UTC calendar time, as day number and
\* second of the day.
utcfromtimestamp(ts) == [day |-> ts \div 86400, second |-> ts % 86400]

ts_to_datetime(ts) == IF IntTruthy(ts) THEN Some(utcfromtimestamp(ts)) ELSE None

\* A _translate that takes the last translation.
translate_last(translated_string_msg) ==
    IF SeqTruthy(translated_string_msg.translation)
    THEN translated_string_msg.translation[Len(translated_string_msg.translation)].text
    ELSE ""

translate(translated_string_msg) ==
    IF MsgTruthy(translated_string_msg) /\ SeqTruthy(translated_string_msg.translation)
    THEN translated_string_msg.translation[1].text
    ELSE ""

\* ---------------------------------------------------------------------------
\* 4) Trip updates: the rows process_trip_updates builds
\* ---------------------------------------------------------------------------
RECURSIVE Flatten(_)
Flatten(ss) == IF ss = << >> THEN << >> ELSE Head(ss) \o Flatten(Tail(ss))

TripUpdateRow(feed_log_id, tu) ==
    [table |-> "realtime_trip_updates",
     feed_log_id |-> feed_log_id,
     trip_id |-> tu.trip.trip_id,
     route_id |-> tu.trip.route_id,
     start_date |-> tu.trip.start_date,
     schedule_relationship |-> Str(tu.trip.schedule_relationship)]

\* A delay that is kept whenever the arrival is present (`is not None'
\* in place of the truth test).
delay_of_keeps_zero(stu) ==
    IF stu.has_arrival THEN Some(stu.arrival.delay) ELSE None

\* delay = stu.arrival.delay if (stu.arrival and stu.arrival.delay) else None
delay_of(stu) ==
    IF MsgTruthy(stu.arrival) /\ IntTruthy(stu.arrival.delay)
    THEN Some(stu.arrival.delay) ELSE None

\* A row whose delay falls back to the departure delay when the arrival has
\* none.
StopTimeUpdateRow_departure_delay(feed_log_id, trip_id, stu) ==
    [table |-> "realtime_stop_time_updates",
     feed_log_id |-> feed_log_id,
     trip_id |-> trip_id,
     stop_id |-> stu.stop_id,
     stop_sequence |-> stu.stop_sequence,
     arrival_time |-> ts_to_datetime(stu.arrival.time),
     departure_time |-> ts_to_datetime(stu.departure.time),
     delay_seconds |->
        IF IntTruthy(stu.arrival.delay) THEN Some(stu.arrival.delay)
        ELSE IF IntTruthy(stu.departure.delay) THEN Some(stu.departure.delay)
        ELSE None]

StopTimeUpdateRow(feed_log_id, trip_id, stu) ==
    [table |-> "realtime_stop_time_updates",
     feed_log_id |-> feed_log_id,
     trip_id |-> trip_id,
     stop_id |-> stu.stop_id,
     stop_sequence |-> stu.stop_sequence,
     arrival_time |->
        IF MsgTruthy(stu.arrival) /\ IntTruthy(stu.arrival.time)
        THEN ts_to_datetime(stu.arrival.time) ELSE None,
     departure_time |->
        IF MsgTruthy(stu.departure) /\ IntTruthy(stu.departure.time)
        THEN ts_to_datetime(stu.departure.time) ELSE None,
     delay_seconds |-> delay_of(stu)]

\* The entities the loop of a normaliser accepts: `if entity.<field>:'.
Accepted(feed_message, field) ==
    SelectSeq(feed_message.entity, LAMBDA entity : MsgTruthy(entity[field]))

trip_updates_data(feed_log_id, feed_message) ==
    LET es == Accepted(feed_message, "trip_update")
    IN  [i \in 1..Len(es) |-> TripUpdateRow(feed_log_id, es[i].trip_update)]

stop_time_updates_data(feed_log_id, feed_message) ==
    LET es == Accepted(feed_message, "trip_update")
        rowsOf(tu) ==
            [j \in 1..Len(tu.stop_time_update) |->
                StopTimeUpdateRow(feed_log_id, tu.trip.trip_id, tu.stop_time_update[j])]
    IN  Flatten([i \in 1..Len(es) |-> rowsOf(es[i].trip_update)])

\* ---------------------------------------------------------------------------
\* 5) Vehicle positions
\* ---------------------------------------------------------------------------
VehiclePositionRow(feed_log_id, v) ==
    [table |-> "realtime_vehicle_positions",
     feed_log_id |-> feed_log_id,
     vehicle_id |-> v.vehicle.id,
     trip_id |-> v.trip.trip_id,
     route_id |-> v.trip.route_id,
     current_stop_id |-> v.stop_id,
     current_status |-> Str(v.current_status),
     lat |-> IF MsgTruthy(v.position) THEN Some(v.position.latitude) ELSE None,
     lon |-> IF MsgTruthy(v.position) THEN Some(v.position.longitude) ELSE None,
     bearing |-> IF MsgTruthy(v.position) THEN Some(v.position.bearing) ELSE None,
     speed |-> IF MsgTruthy(v.position) THEN Some(v.position.speed) ELSE None,
     position_timestamp |->
        IF IntTruthy(v.timestamp) THEN ts_to_datetime(v.timestamp) ELSE None]

vehicle_positions_data(feed_log_id, feed_message) ==
    LET es == Accepted(feed_message, "vehicle")
    IN  [i \in 1..Len(es) |-> VehiclePositionRow(feed_log_id, es[i].vehicle)]

\* ---------------------------------------------------------------------------
\* 6) Service alerts
\* ---------------------------------------------------------------------------
ServiceAlertRow(feed_log_id, a) ==
    [table |-> "realtime_service_alerts",
     feed_log_id |-> feed_log_id,
     header_text |-> translate(a.header_text),
     description_text |-> translate(a.description_text),
     cause |-> Str(a.cause),
     effect |-> Str(a.effect)]

alerts_data(feed_log_id, feed_message) ==
    LET es == Accepted(feed_message, "alert")
    IN  [i \in 1..Len(es) |-> ServiceAlertRow(feed_log_id, es[i].alert)]

\* ---------------------------------------------------------------------------
\* 7) Feed logging: the row log_feed_fetch inserts
\* ---------------------------------------------------------------------------
FeedLogRow(id, feed_name, feed_url, now, feed_timestamp, success, error_message) ==
    [table |-> "realtime_feed_logs",
     feed_log_id |-> id,
     feed_url |-> feed_url,
     feed_name |-> feed_name,
     fetched_at |-> now,
     feed_timestamp |-> feed_timestamp,
     success |-> success,
     error_message |-> error_message]

\* ---------------------------------------------------------------------------
\* State
\* ---------------------------------------------------------------------------
VARIABLES
    pc,            \* position of main() in its loop
    clock,         \* wall time in poll intervals: what NOW() returns
    conn,          \* the local `conn' of main(): None, or a connection "open" or "closed"
    openConns,     \* number of connections the server holds open for the process
    feedIdx,       \* position of the for loop in GTFS_RT_FEEDS
    feed_message,  \* result of fetch_gtfs_rt_feed for the current feed
    feed_log_id,   \* id returned by log_feed_fetch for the current feed (0: not yet bound)
    nextId,        \* next value of the serial column realtime_feed_logs.feed_log_id
    db,            \* committed rows of all tables, in commit order
    pending,       \* rows inserted in the open transaction, not yet committed
    result,        \* history: what the fetch of each feed gave in the current cycle
    finished,      \* history: feeds whose loop body ran to its end in the current cycle
    raised         \* history: the exception a database call raised in the current cycle

vars == <<pc, clock, conn, openConns, feedIdx, feed_message, feed_log_id, nextId,
          db, pending, result, finished, raised>>

Feeds == 1..NumFeeds

FetchErrors == {"timeout", "connection_error", "http_error", "decode_error"}

NotFetched == [status |-> "not_fetched", message |-> None]

FetchResults ==
    {[status |-> e, message |-> None] : e \in FetchErrors}
        \cup {[status |-> "ok", message |-> Some(m)] : m \in Messages}

LiveFetchResults ==
    {r \in FetchResults :
        r.status = "ok" => Len(r.message[1].entity) <= 1 /\ r.message[1].header.timestamp # 0}

\* A process_trip_updates that writes its stop-time batch before its
\* trip-update batch.
Tables_stop_times_first ==
    <<"realtime_stop_time_updates", "realtime_trip_updates",
      "realtime_vehicle_positions", "realtime_service_alerts">>

\* The tables in the order main() has their batches written: the two inserts
\* of process_trip_updates, then process_vehicle_positions, then
\* process_service_alerts.
Tables == <<"realtime_trip_updates", "realtime_stop_time_updates",
            "realtime_vehicle_positions", "realtime_service_alerts">>

Init ==
    /\ pc = "connect"
    /\ clock = 0
    /\ conn = None
    /\ openConns = 0
    /\ feedIdx = 0
    /\ feed_message = None
    /\ feed_log_id = 0
    /\ nextId = 1
    /\ db = << >>
    /\ pending = << >>
    /\ result = [f \in Feeds |-> NotFetched]
    /\ finished = {}
    /\ raised = None

\* ---------------------------------------------------------------------------
\* 3) fetch_gtfs_rt_feed
\* ---------------------------------------------------------------------------
\* A fetch_gtfs_rt_feed without its try statement: the error propagates.
fetch_except_propagates(status) == "raise"

\* What the `except Exception' clause of fetch_gtfs_rt_feed does with an error
\* of requests.get, raise_for_status or ParseFromString.
fetch_except(status) == "return_none"

\* A main() that passes the reason of the failure as error_message.
error_message_reason(status) == Some(status)

\* The text main() passes as error_message for a feed that gave no message.
error_message_of(status) == Some("Failed to fetch or parse protobuf")

\* `if not feed_message:'
not_feed_message(fm) == IF fm = None THEN TRUE ELSE ~MsgTruthy(fm[1])

\* ---------------------------------------------------------------------------
\* 9) main: the batches of one feed
\* ---------------------------------------------------------------------------
\* any(e.<field> for e in feed_message.entity)
has_any(m, field) == \E i \in 1..Len(m.entity) : MsgTruthy(m.entity[i][field])

\* The rows main() has a table written with for message m: the list the
\* normaliser builds when main() calls it, nothing when it does not.
BatchRows(t, id, m) ==
    CASE t = "realtime_trip_updates" ->
            IF has_any(m, "trip_update") THEN trip_updates_data(id, m) ELSE << >>
      [] t = "realtime_stop_time_updates" ->
            IF has_any(m, "trip_update") THEN stop_time_updates_data(id, m) ELSE << >>
      [] t = "realtime_vehicle_positions" ->
            IF has_any(m, "vehicle") THEN vehicle_positions_data(id, m) ELSE << >>
      [] t = "realtime_service_alerts" ->
            IF has_any(m, "alert") THEN alerts_data(id, m) ELSE << >>

\* The first table from position k on whose list is non-empty (`if <list>:'),
\* 0 when there is none: the loop body is at its end.
RECURSIVE NextBatch(_, _, _)
NextBatch(k, id, m) ==
    IF k > Len(Tables) THEN 0
    ELSE IF SeqTruthy(BatchRows(Tables[k], id, m)) THEN k
    ELSE NextBatch(k + 1, id, m)

\* A batch whose error is caught and logged next to the call: the next batch
\* of the feed follows.
on_batch_error_continue(k, id, m) == "continue"

\* Where an exception raised by a statement or a commit of a batch goes:
\* nothing between the call and main()'s `except Exception' catches it.
on_batch_error(k, id, m) == "except"

\* A main() without its `except Exception' clause: the process ends.
on_exception_terminate == "terminated"

\* Where main()'s try statement sends an exception raised in the cycle.
on_exception == "except"

\* A main() that closes the connection at the end of the try block only.
close_needed_no_exception(c, exc) == c # None /\ exc = None

\* `if conn:' in the finally clause.
close_needed(c, exc) == c # None

\* A close that undoes the committed rows of the current feed too.
after_close_undo_feed(rows, id) == SelectSeq(rows, LAMBDA r : r.feed_log_id # id)

\* What closing the connection leaves of the committed rows: the open
\* transaction is rolled back, committed rows stay.
after_close(rows, id) == rows

\* A log_feed_fetch that returns another id than the one of its row.
returned_id_off_by_one(id) == id + 1

\* The id log_feed_fetch returns: the RETURNING value of its insert.
returned_id(id) == id

\* A main() that does not log a feed that gave no message.
on_fetch_failure_skip == "skip"

\* What main() does with a feed that gave no message: it logs the failure.
on_fetch_failure == "log"

\* ---------------------------------------------------------------------------
\* 9) main: the steps of the loop
\* ---------------------------------------------------------------------------
InsertPcs == <<"trip_updates_insert", "stop_time_updates_insert",
               "vehicle_positions_insert", "service_alerts_insert">>

CommitPcs == <<"trip_updates_commit", "stop_time_updates_commit",
               "vehicle_positions_commit", "service_alerts_commit">>

\* An exception leaves the try block of main().
Raise(op) ==
    /\ pc' = on_exception
    /\ raised' = Some([feed |-> feedIdx, op |-> op])

\* The body of the for loop is over for the current feed: next feed, or the
\* end of the try block.
EndOfBody ==
    /\ finished' = finished \cup {feedIdx}
    /\ IF feedIdx < NumFeeds
       THEN feedIdx' = feedIdx + 1 /\ pc' = "fetch"
       ELSE feedIdx' = feedIdx /\ pc' = "finally"

\* Continue with batch k of the current feed (0: no batch is left).
GotoBatch(k) ==
    IF k = 0 THEN EndOfBody
    ELSE pc' = InsertPcs[k] /\ UNCHANGED <<finished, feedIdx>>

\* conn = None; conn = get_db_connection()
\* (a failed connect leaves conn = None: the assignment never happens)
get_db_connection ==
    /\ pc = "connect"
    /\ \E ok \in BOOLEAN :
          IF ok
          THEN /\ conn' = Some("open")
               /\ openConns' = openConns + 1
               /\ feedIdx' = 1
               /\ pc' = "fetch"
               /\ raised' = raised
          ELSE /\ conn' = None
               /\ openConns' = openConns
               /\ feedIdx' = 0
               /\ pc' = on_exception
               /\ raised' = Some([feed |-> 0, op |-> "connect"])
    /\ UNCHANGED <<clock, feed_message, feed_log_id, nextId, db, pending, result,
                   finished>>

\* feed_message = fetch_gtfs_rt_feed(feed_url); if not feed_message: ...
\* (`outcomes': what the endpoints may answer)
fetch_gtfs_rt_feed(outcomes) ==
    /\ pc = "fetch"
    /\ \E r \in outcomes :
          /\ result' = [result EXCEPT ![feedIdx] = r]
          /\ IF r.status # "ok" /\ fetch_except(r.status) # "return_none"
             THEN /\ Raise("fetch")
                  /\ UNCHANGED <<feed_message, finished, feedIdx>>
             ELSE /\ feed_message' = r.message
                  /\ raised' = raised
                  /\ IF not_feed_message(r.message) /\ on_fetch_failure # "log"
                     THEN EndOfBody
                     ELSE pc' = "log_insert" /\ UNCHANGED <<finished, feedIdx>>
    /\ UNCHANGED <<clock, conn, openConns, feed_log_id, nextId, db, pending>>

\* A main() that logs a feed that gave no message as a success.
failure_success_flag_true == TRUE

\* success=False in the call of log_feed_fetch for a feed that gave no message.
failure_success_flag == FALSE

\* A loop over the catalog from its last feed to its first.
items_reversed(d) == [i \in 1..Len(d) |-> d[Len(d) + 1 - i]]

\* for feed_name, feed_url in GTFS_RT_FEEDS.items(): a dict iterates in the
\* order of its literal.
items(d) == d

\* The row of the call of log_feed_fetch main() makes for the current feed.
LogRowOf(id, i, fm, now, status) ==
    IF not_feed_message(fm)
    THEN FeedLogRow(id, items(GTFS_RT_FEEDS)[i].feed_name, items(GTFS_RT_FEEDS)[i].feed_url, now,
                    None, failure_success_flag, error_message_of(status))
    ELSE FeedLogRow(id, items(GTFS_RT_FEEDS)[i].feed_name, items(GTFS_RT_FEEDS)[i].feed_url, now,
                    IF IntTruthy(fm[1].header.timestamp)
                    THEN ts_to_datetime(fm[1].header.timestamp) ELSE None,
                    TRUE, None)

\* log_feed_fetch: cur.execute(INSERT ... RETURNING feed_log_id)
log_feed_fetch_execute ==
    /\ pc = "log_insert"
    /\ \E ok \in BOOLEAN :
          IF ok
          THEN /\ pending' = Append(pending,
                      LogRowOf(nextId, feedIdx, feed_message, clock, result[feedIdx].status))
               /\ nextId' = nextId + 1
               /\ pc' = "log_commit"
               /\ raised' = raised
          ELSE /\ Raise("log_insert")
               /\ UNCHANGED <<pending, nextId>>
    /\ UNCHANGED <<clock, conn, openConns, feedIdx, feed_message, feed_log_id, db,
                   result, finished>>

\* log_feed_fetch: conn.commit(); return feed_log_id; then `continue' for a
\* failed fetch, the batches otherwise.
log_feed_fetch_commit ==
    /\ pc = "log_commit"
    /\ \E ok \in BOOLEAN :
          IF ok
          THEN /\ db' = db \o pending
               /\ pending' = << >>
               /\ raised' = raised
               /\ IF not_feed_message(feed_message)
                  THEN /\ feed_log_id' = feed_log_id
                       /\ EndOfBody
                  ELSE /\ feed_log_id' = returned_id(pending[Len(pending)].feed_log_id)
                       /\ GotoBatch(NextBatch(1, feed_log_id', feed_message[1]))
          ELSE /\ Raise("log_commit")
               /\ UNCHANGED <<db, pending, feed_log_id, finished, feedIdx>>
    /\ UNCHANGED <<clock, conn, openConns, feed_message, nextId, result>>

\* A statement or commit of batch k raised.
BatchError(k, op) ==
    /\ raised' = Some([feed |-> feedIdx, op |-> op])
    /\ IF on_batch_error(k, feed_log_id, feed_message[1]) = "except"
       THEN pc' = on_exception /\ UNCHANGED <<finished, feedIdx>>
       ELSE GotoBatch(NextBatch(k + 1, feed_log_id, feed_message[1]))

\* An insert on a connection in autocommit mode that fails after its first
\* row: that row stays.
left_by_failed_insert_autocommit(rows) == SubSeq(rows, 1, 1)

\* What a failed execute_values leaves committed of its rows: the connection
\* of get_db_connection is not in autocommit mode, the statement runs in the
\* open transaction and nothing of it is committed.
left_by_failed_insert(rows) == << >>

\* execute_values(cur, sql, <list>) of batch k
batch_execute_values(k) ==
    /\ pc = InsertPcs[k]
    /\ \E ok \in BOOLEAN :
          IF ok
          THEN /\ pending' = pending \o BatchRows(Tables[k], feed_log_id, feed_message[1])
               /\ pc' = CommitPcs[k]
               /\ UNCHANGED <<raised, finished, feedIdx, db>>
          ELSE /\ BatchError(k, InsertPcs[k])
               /\ pending' = pending
               /\ db' = db \o left_by_failed_insert(
                                  BatchRows(Tables[k], feed_log_id, feed_message[1]))
    /\ UNCHANGED <<clock, conn, openConns, feed_message, feed_log_id, nextId, result>>

\* conn.commit() of batch k
batch_commit(k) ==
    /\ pc = CommitPcs[k]
    /\ \E ok \in BOOLEAN :
          IF ok
          THEN /\ db' = db \o pending
               /\ pending' = << >>
               /\ raised' = raised
               /\ GotoBatch(NextBatch(k + 1, feed_log_id, feed_message[1]))
          ELSE /\ BatchError(k, CommitPcs[k])
               /\ UNCHANGED <<db, pending>>
    /\ UNCHANGED <<clock, conn, openConns, feed_message, feed_log_id, nextId, result>>

\* except Exception as e: logging.error(...)
except_handler ==
    /\ pc = "except"
    /\ pc' = "finally"
    /\ UNCHANGED <<clock, conn, openConns, feedIdx, feed_message, feed_log_id, nextId,
                   db, pending, result, finished, raised>>

\* finally: if conn: conn.close()
finally_close ==
    /\ pc = "finally"
    /\ IF close_needed(conn, raised)
       THEN /\ conn' = Some("closed")
            /\ openConns' = openConns - 1
            /\ pending' = << >>
            /\ db' = after_close(db, feed_log_id)
       ELSE UNCHANGED <<conn, openConns, pending, db>>
    /\ pc' = "sleep"
    /\ UNCHANGED <<clock, feedIdx, feed_message, feed_log_id, nextId, result, finished,
                   raised>>

\* time.sleep(POLL_INTERVAL), then the next iteration of `while True'
sleep ==
    /\ pc = "sleep"
    /\ clock < MaxCycles * POLL_INTERVAL
    /\ clock' = clock + POLL_INTERVAL
    /\ pc' = "connect"
    /\ result' = [f \in Feeds |-> NotFetched]
    /\ finished' = {}
    /\ raised' = None
    /\ UNCHANGED <<conn, openConns, feedIdx, feed_message, feed_log_id, nextId, db,
                   pending>>

Step(outcomes) ==
    \/ get_db_connection
    \/ fetch_gtfs_rt_feed(outcomes)
    \/ log_feed_fetch_execute
    \/ log_feed_fetch_commit
    \/ \E k \in 1..Len(Tables) : batch_execute_values(k)
    \/ \E k \in 1..Len(Tables) : batch_commit(k)
    \/ except_handler
    \/ finally_close
    \/ sleep

Next == Step(FetchResults)

Spec == Init /\ [][Next]_vars

\* The same loop with endpoints that answer with an error or with a message of
\* at most one entity: the control flow of main() is the same, the database
\* contents are fewer.
LiveNext == Step(LiveFetchResults)

\* main() is one sequential thread: it always takes its next step.
LiveSpec == Init /\ [][LiveNext]_vars /\ WF_vars(LiveNext)

WideFetchResults ==
    FetchResults \cup {[status |-> "ok", message |-> Some(m)] : m \in WideMessages}

\* One pass of the while loop of main(), up to its sleep, against endpoints
\* that deliver the wider range of payloads.
CycleNext ==
    \/ get_db_connection
    \/ fetch_gtfs_rt_feed(WideFetchResults)
    \/ log_feed_fetch_execute
    \/ log_feed_fetch_commit
    \/ \E k \in 1..Len(Tables) : batch_execute_values(k)
    \/ \E k \in 1..Len(Tables) : batch_commit(k)
    \/ except_handler
    \/ finally_close

CycleSpec == Init /\ [][CycleNext]_vars

TypeOK ==
    /\ openConns \in 0..1
    /\ conn \in {None, Some("open"), Some("closed")}
    /\ feedIdx \in 0..NumFeeds

\* ---------------------------------------------------------------------------
\* Vocabulary of the properties
\* ---------------------------------------------------------------------------
FeedLogs == "realtime_feed_logs"

\* Positions in db of the FetchAttempt rows of feed f fetched at time `now'.
AttemptsOf(f, now) ==
    {i \in 1..Len(db) :
        /\ db[i].table = FeedLogs
        /\ db[i].feed_name = GTFS_RT_FEEDS[f].feed_name
        /\ db[i].fetched_at = now}

\* Positions in db of the rows of table t that carry attempt id `id'.
RowsOf(t, id) == {i \in 1..Len(db) : db[i].table = t /\ db[i].feed_log_id = id}

\* Positions in db of the entity rows that carry attempt id `id'.
EntityRowsOf(id) ==
    {i \in 1..Len(db) : db[i].table # FeedLogs /\ db[i].feed_log_id = id}

\* Number of entities of message m that carry payload `field' on the wire.
CountHas(m, field) ==
    Cardinality({i \in 1..Len(m.entity) : HasField(m.entity[i], field)})

RECURSIVE SumStops(_, _)
\* Number of stop-time-update elements of the first n entities of m that
\* carry a trip update.
SumStops(m, n) ==
    IF n = 0 THEN 0
    ELSE SumStops(m, n - 1)
         + (IF HasField(m.entity[n], "trip_update")
            THEN Len(m.entity[n].trip_update.stop_time_update) ELSE 0)

FetchFailed(f) == result[f].status \in FetchErrors

LogOps == {"log_insert", "log_commit"}

BatchOps == {InsertPcs[k] : k \in 1..Len(InsertPcs)} \cup {CommitPcs[k] : k \in 1..Len(CommitPcs)}

\* ---------------------------------------------------------------------------
\* C1
\* ---------------------------------------------------------------------------
\* C1 as stated: when a cycle has reached its sleep step, every feed whose
\* fetch or decode failed in it has exactly one FetchAttempt row of that
\* cycle, with success = false, that no entity row references.
C1_Original ==
    pc = "sleep" =>
        \A f \in Feeds :
            FetchFailed(f) =>
                /\ Cardinality(AttemptsOf(f, clock)) = 1
                /\ \A i \in AttemptsOf(f, clock) :
                      ~db[i].success /\ EntityRowsOf(db[i].feed_log_id) = {}

\* C1 amended: a feed whose fetch or decode failed has at most one
\* FetchAttempt row of that cycle, exactly one once its audit insert and
\* commit have succeeded (a database error in them ends the cycle without the
\* row); the row has success = false, and no entity row ever references the id
\* of a FetchAttempt row with success = false.
C1_FailedFetchLogged ==
    /\ \A f \in Feeds :
          FetchFailed(f) =>
              /\ Cardinality(AttemptsOf(f, clock)) <= 1
              /\ (f \in finished => Cardinality(AttemptsOf(f, clock)) = 1)
              /\ (f \notin finished /\ pc = "sleep" =>
                      raised # None /\ raised[1].feed = f /\ raised[1].op \in LogOps)
              /\ \A i \in AttemptsOf(f, clock) : ~db[i].success
    /\ \A i \in 1..Len(db) :
          (db[i].table = FeedLogs /\ ~db[i].success) =>
              EntityRowsOf(db[i].feed_log_id) = {}

\* A failed fetch has been logged, in a cycle in which another feed was
\* fetched, logged and had entity rows written.
C1_Witness ==
    \E f, g \in Feeds :
        /\ FetchFailed(f) /\ f \in finished
        /\ Cardinality(AttemptsOf(f, clock)) = 1
        /\ g \in finished /\ result[g].status = "ok"
        /\ \E i \in AttemptsOf(g, clock) : EntityRowsOf(db[i].feed_log_id) # {}

\* ---------------------------------------------------------------------------
\* C2
\* ---------------------------------------------------------------------------
\* C2: for every feed whose fetch and decode succeeded and whose processing is
\* finished, there is exactly one FetchAttempt row, with success = true, and
\* the rows under its id are one trip-update row per entity carrying a trip
\* update, one stop-time row per stop-time-update element of those entities,
\* one vehicle-position row per entity carrying a vehicle and one service-alert
\* row per entity carrying an alert.
C2_RowsPerEntityKind ==
    \A f \in finished :
        result[f].status = "ok" =>
            LET m == result[f].message[1]
            IN  /\ Cardinality(AttemptsOf(f, clock)) = 1
                /\ \A i \in AttemptsOf(f, clock) :
                      /\ db[i].success
                      /\ Cardinality(RowsOf("realtime_trip_updates", db[i].feed_log_id))
                            = CountHas(m, "trip_update")
                      /\ Cardinality(RowsOf("realtime_stop_time_updates", db[i].feed_log_id))
                            = SumStops(m, Len(m.entity))
                      /\ Cardinality(RowsOf("realtime_vehicle_positions", db[i].feed_log_id))
                            = CountHas(m, "vehicle")
                      /\ Cardinality(RowsOf("realtime_service_alerts", db[i].feed_log_id))
                            = CountHas(m, "alert")

\* ---------------------------------------------------------------------------
\* C3
\* ---------------------------------------------------------------------------
\* C3: every committed entity row carries the id of a FetchAttempt row that is
\* committed earlier in commit order, and a batch is attempted only once the
\* FetchAttempt row of its id is committed.
C3_AttemptPrecedesRows ==
    /\ \A i \in 1..Len(db) :
          db[i].table # FeedLogs =>
              \E j \in 1..(i - 1) :
                  db[j].table = FeedLogs /\ db[j].feed_log_id = db[i].feed_log_id
    /\ \A i \in 1..Len(pending) :
          pending[i].table # FeedLogs =>
              \E j \in 1..Len(db) :
                  db[j].table = FeedLogs /\ db[j].feed_log_id = pending[i].feed_log_id
    /\ pc \in BatchOps =>
          \E j \in 1..Len(db) : db[j].table = FeedLogs /\ db[j].feed_log_id = feed_log_id

\* Entity rows of two attempts are committed, and a batch of a third is pending.
C3_Witness ==
    /\ \E i, j \in 1..Len(db) :
          /\ db[i].table # FeedLogs /\ db[j].table # FeedLogs
          /\ db[i].feed_log_id # db[j].feed_log_id
    /\ \E i \in 1..Len(pending) : pending[i].table # FeedLogs

\* ---------------------------------------------------------------------------
\* C4
\* ---------------------------------------------------------------------------
\* C4 as stated: a fetch or decode error on a feed is turned into a failed
\* FetchAttempt row and the feed after it is still fetched: when the cycle has
\* reached its sleep step, a feed whose fetch failed has its row and its loop
\* body ended, and its successor in the catalog was fetched.
C4_Original ==
    pc = "sleep" =>
        \A f \in Feeds :
            FetchFailed(f) =>
                /\ f \in finished
                /\ Cardinality(AttemptsOf(f, clock)) = 1
                /\ (f < NumFeeds => result[f + 1].status # "not_fetched")

\* C4 amended: a fetch or decode error never leaves fetch_gtfs_rt_feed: the
\* poller goes on to the audit insert of that feed; the only exception its
\* step can raise is a database error of that insert or its commit, which ends
\* the cycle.  When they succeed, the failure is a failed FetchAttempt row and
\* the poller moves to the next feed of the catalog, which is fetched before
\* the cycle ends.
C4_FetchErrorContained ==
    \A f \in Feeds :
        FetchFailed(f) =>
            /\ (raised # None /\ raised[1].feed = f) => raised[1].op \in LogOps
            /\ (f \notin finished /\ raised = None) =>
                   feedIdx = f /\ pc \in {"log_insert", "log_commit"}
            /\ f \in finished =>
                   /\ \E i \in AttemptsOf(f, clock) : ~db[i].success
                   /\ (f < NumFeeds =>
                          /\ feedIdx > f
                          /\ pc # "fetch" => result[f + 1].status # "not_fetched")

\* The first feed failed to fetch, and the second was fetched, logged and had
\* its batches written in the same cycle, which ended without an exception.
C4_Witness ==
    /\ pc = "sleep" /\ raised = None
    /\ FetchFailed(1)
    /\ result[NumFeeds].status = "ok" /\ NumFeeds \in finished
    /\ \E i \in AttemptsOf(NumFeeds, clock) : EntityRowsOf(db[i].feed_log_id) # {}

\* ---------------------------------------------------------------------------
\* C5
\* ---------------------------------------------------------------------------
\* Position in Tables of the batch that database call `op' belongs to.
BatchOf(op) ==
    CHOOSE k \in 1..Len(Tables) : op \in {InsertPcs[k], CommitPcs[k]}

\* The payload field whose entities go to table k.
FieldOf(k) == <<"trip_update", "trip_update", "vehicle", "alert">>[k]

\* C5 as stated: when the batch of one kind failed for a feed, the batches of
\* the other kinds present in the feed are still written: once the cycle is
\* at its sleep step after a failure of the trip-update or stop-time batch,
\* the vehicle-position and service-alert rows of that feed are committed if
\* the feed carries such entities.
C5_Original ==
    (pc = "sleep" /\ raised # None /\ raised[1].op \in BatchOps
        /\ BatchOf(raised[1].op) \in {1, 2}) =>
        \A k \in {3, 4} :
            CountHas(feed_message[1], FieldOf(k)) > 0 =>
                RowsOf(Tables[k], feed_log_id) # {}

\* C5 amended: when the insert or the commit of a batch raises, the exception
\* goes to the handler of the cycle: no later batch of that feed is attempted,
\* the loop body of the feed does not end, and no later feed is fetched in that
\* cycle.
C5_BatchFailureEndsCycle ==
    (raised # None /\ raised[1].op \in BatchOps) =>
        /\ pc \in {"except", "finally", "sleep"}
        /\ feedIdx = raised[1].feed
        /\ feedIdx \notin finished
        /\ \A k \in (BatchOf(raised[1].op) + 1)..Len(Tables) :
              /\ RowsOf(Tables[k], feed_log_id) = {}
              /\ \A i \in 1..Len(pending) : pending[i].table # Tables[k]
        /\ \A g \in (feedIdx + 1)..NumFeeds : result[g].status = "not_fetched"

\* The stop-time batch of the first feed failed, the feed carries vehicle and
\* alert entities, and the cycle is at its sleep step.
C5_Witness ==
    /\ pc = "sleep" /\ raised # None
    /\ raised[1].op \in {InsertPcs[2], CommitPcs[2]}
    /\ raised[1].feed < NumFeeds
    /\ CountHas(feed_message[1], "vehicle") > 0
    /\ CountHas(feed_message[1], "alert") > 0
    /\ RowsOf(Tables[1], feed_log_id) # {}

\* ---------------------------------------------------------------------------
\* C6
\* ---------------------------------------------------------------------------
\* C6: a committed row stays committed: every step, a failing one and the
\* close of the connection included, leaves the committed rows as a prefix of
\* the committed rows after it.
C6_CommittedStays ==
    [][Len(db') >= Len(db) /\ SubSeq(db', 1, Len(db)) = db]_vars

\* The trip-update batch of a feed is committed, a later batch of the same
\* feed has failed, and the connection is closed.
C6_Witness ==
    /\ pc = "sleep" /\ conn = Some("closed")
    /\ raised # None /\ raised[1].op \in BatchOps /\ BatchOf(raised[1].op) > 1
    /\ RowsOf(Tables[1], feed_log_id) # {}

\* ---------------------------------------------------------------------------
\* C7
\* ---------------------------------------------------------------------------
\* C7: the poller never stops on its own: in every cycle the sleep step is
\* reached whatever was raised, and after each sleep (as many as the model
\* follows) the next cycle starts.
C7_NeverTerminates ==
    /\ []<>(pc = "sleep")
    /\ \A c \in 0..(MaxCycles - 1) :
          (pc = "sleep" /\ clock = c * POLL_INTERVAL)
              ~> (pc = "connect" /\ clock = (c + 1) * POLL_INTERVAL)
    /\ \A c \in 0..MaxCycles :
          (pc = "connect" /\ clock = c * POLL_INTERVAL)
              ~> (pc = "sleep" /\ clock = c * POLL_INTERVAL)

\* A later cycle is fetching although an audit commit of an earlier cycle
\* raised (its id is used up and no row is committed).
C7_Witness ==
    /\ clock > 0 /\ pc = "fetch"
    /\ db = << >> /\ nextId > 1

\* ---------------------------------------------------------------------------
\* C8
\* ---------------------------------------------------------------------------
\* C8: at most one connection is open at any time, none is open at the sleep
\* step nor when a cycle starts, and the connection main() holds is the open
\* one; a connection is opened only by the connect step, which a cycle takes
\* once: it is reached only from the sleep step that ends the cycle before.
C8_ConnectionScoped ==
    /\ [](/\ openConns \in {0, 1}
          /\ pc \in {"sleep", "connect"} => openConns = 0
          /\ openConns = 1 <=> conn = Some("open"))
    /\ [][/\ openConns' > openConns => pc = "connect"
          /\ (pc' = "connect" /\ pc # "connect") => (pc = "sleep" /\ clock' > clock)]_vars

\* The cycle is at its sleep step after a database call raised in mid-cycle,
\* with the connection it had opened closed.
C8_Witness ==
    /\ pc = "sleep" /\ conn = Some("closed")
    /\ raised # None /\ raised[1].op # "connect"
    /\ openConns = 0

\* ---------------------------------------------------------------------------
\* C9
\* ---------------------------------------------------------------------------
\* C9 as stated: when a cycle reaches its sleep step, every feed of the
\* catalog has exactly one FetchAttempt row of that cycle.
C9_Original ==
    pc = "sleep" => \A f \in Feeds : Cardinality(AttemptsOf(f, clock)) = 1

\* C9 amended: every feed has at most one FetchAttempt row per cycle.  At the
\* sleep step of a cycle in which nothing was raised every feed has exactly
\* one; when the connect or a database call raised, the feeds before the one
\* being processed have exactly one, the feeds after it have none, and the
\* feed being processed has one if the call that raised came after its audit
\* commit.
C9_AttemptsPerCycle ==
    \A f \in Feeds :
        /\ Cardinality(AttemptsOf(f, clock)) <= 1
        /\ pc = "sleep" =>
              IF raised = None
              THEN Cardinality(AttemptsOf(f, clock)) = 1
              ELSE /\ f < raised[1].feed => Cardinality(AttemptsOf(f, clock)) = 1
                   /\ f > raised[1].feed => Cardinality(AttemptsOf(f, clock)) = 0
                   /\ (f = raised[1].feed /\ raised[1].op \in BatchOps) =>
                          Cardinality(AttemptsOf(f, clock)) = 1

\* A batch of the first feed raised: that feed has its row, the next has none.
C9_Witness ==
    /\ pc = "sleep" /\ raised # None
    /\ raised[1].feed = 1 /\ raised[1].op \in BatchOps
    /\ Cardinality(AttemptsOf(1, clock)) = 1
    /\ Cardinality(AttemptsOf(NumFeeds, clock)) = 0

\* ---------------------------------------------------------------------------
\* C10
\* ---------------------------------------------------------------------------
\* C10 as stated: the error detail of a failed FetchAttempt row is the reason
\* of the failure (a timeout gives the timeout reason, a decode failure its
\* own detail), with a null header timestamp.
C10_Original ==
    \A f \in Feeds :
        FetchFailed(f) =>
            \A i \in AttemptsOf(f, clock) :
                /\ db[i].feed_timestamp = None
                /\ db[i].error_message = Some(result[f].status)

\* C10 amended: the error detail of every failed FetchAttempt row is the one
\* fixed text "Failed to fetch or parse protobuf", with a null header
\* timestamp, whatever the failure was: a timeout, another fetch failure and a
\* decode failure give the same error detail.  A successful row has no error
\* detail.
C10_FixedErrorDetail ==
    \A i \in 1..Len(db) :
        db[i].table = FeedLogs =>
            IF db[i].success
            THEN db[i].error_message = None
            ELSE /\ db[i].feed_timestamp = None
                 /\ db[i].error_message = Some("Failed to fetch or parse protobuf")

\* A timeout and a decode failure are both logged in one cycle, next to a
\* successful row of an earlier cycle that has a header timestamp.
C10_Witness ==
    /\ \E f, g \in Feeds :
          /\ result[f].status = "timeout" /\ result[g].status = "decode_error"
          /\ AttemptsOf(f, clock) # {} /\ AttemptsOf(g, clock) # {}
    /\ \E i \in 1..Len(db) :
          db[i].table = FeedLogs /\ db[i].success /\ db[i].feed_timestamp # None

\* ---------------------------------------------------------------------------
\* C11
\* ---------------------------------------------------------------------------
\* The number of rows of table k the message stands for: its entities of that
\* kind, for the stop-time table their stop-time-update elements.
KindRows(m, k) ==
    IF k = 2 THEN SumStops(m, Len(m.entity)) ELSE CountHas(m, FieldOf(k))

\* C11: whenever main() is at the insert statement or at the commit of the
\* batch of a table, the message of the feed has at least one entity of that
\* table's kind (for the stop-time table: at least one stop-time-update
\* element); a message that stands for zero rows of a table has no statement
\* and no commit issued for it.
C11_NoStatementForAbsentKind ==
    \A k \in 1..Len(Tables) :
        pc \in {InsertPcs[k], CommitPcs[k]} => KindRows(feed_message[1], k) > 0

\* ---------------------------------------------------------------------------
\* C12
\* ---------------------------------------------------------------------------
\* C12: for every feed whose fetch succeeded and whose processing is finished,
\* each table of a kind K holds under the attempt's id as many rows as the
\* message has entities carrying a payload of kind K: an entity gives a row of
\* kind K if and only if it carries that payload, an entity carrying no payload
\* gives no row in any table, and stop-time rows exist only when some entity
\* carries a trip update.
C12_RowsIffPayload ==
    \A f \in finished :
        result[f].status = "ok" =>
            LET m == result[f].message[1]
            IN  \A i \in AttemptsOf(f, clock) :
                    /\ \A k \in {1, 3, 4} :
                          Cardinality(RowsOf(Tables[k], db[i].feed_log_id))
                              = CountHas(m, FieldOf(k))
                    /\ CountHas(m, "trip_update") = 0
                          => RowsOf(Tables[2], db[i].feed_log_id) = {}

\* ---------------------------------------------------------------------------
\* C13
\* ---------------------------------------------------------------------------
\* The committed rows of table t under attempt id `id', in commit order.
RowSeq(t, id) == SelectSeq(db, LAMBDA r : r.table = t /\ r.feed_log_id = id)

\* The stop-time-update elements of the trip updates of message m, in order.
StusOf(m) ==
    Flatten([n \in 1..Len(m.entity) |->
                IF HasField(m.entity[n], "trip_update")
                THEN m.entity[n].trip_update.stop_time_update ELSE << >>])

\* C13: for every feed whose fetch succeeded and whose processing is finished,
\* the stop-time rows under the attempt's id are, one for one and in order,
\* the stop-time updates of the message's trip updates; in each row
\* arrival_time (departure_time) is non-null exactly when the arrival
\* (departure) sub-message is present with a non-zero time, and delay_seconds
\* is non-null exactly when the arrival is present with a non-zero delay, and
\* is then that delay.
C13_StopTimeNulls ==
    \A f \in finished :
        result[f].status = "ok" =>
            LET stus == StusOf(result[f].message[1])
            IN  \A i \in AttemptsOf(f, clock) :
                    LET rows == RowSeq("realtime_stop_time_updates", db[i].feed_log_id)
                    IN  /\ Len(rows) = Len(stus)
                        /\ \A j \in 1..Len(rows) :
                              /\ rows[j].stop_id = stus[j].stop_id
                              /\ rows[j].arrival_time # None
                                    <=> stus[j].has_arrival /\ stus[j].arrival.time # 0
                              /\ rows[j].departure_time # None
                                    <=> stus[j].has_departure /\ stus[j].departure.time # 0
                              /\ rows[j].delay_seconds # None
                                    <=> stus[j].has_arrival /\ stus[j].arrival.delay # 0
                              /\ rows[j].delay_seconds # None
                                    => rows[j].delay_seconds = Some(stus[j].arrival.delay)

\* A finished feed whose trip update has a stop-time update with only a
\* stop_id and one with an arrival time and a delay of 30: two rows, the first
\* with both null, the second populated; or a finished feed whose stop-time
\* update has an arrival with a delay of exactly 0, stored as null.
C13_Witness ==
    \E f \in finished :
        /\ result[f].status = "ok"
        /\ \E i \in AttemptsOf(f, clock) :
              LET rows == RowSeq("realtime_stop_time_updates", db[i].feed_log_id)
                  stus == StusOf(result[f].message[1])
              IN  \/ /\ stus = <<StuStopOnly, StuArrival>>
                     /\ Len(rows) = 2
                     /\ rows[1].arrival_time = None /\ rows[1].delay_seconds = None
                     /\ rows[2].arrival_time # None /\ rows[2].delay_seconds = Some(30)
                  \/ /\ Len(stus) = 1 /\ Len(rows) = 1
                     /\ stus[1].has_arrival /\ stus[1].arrival.delay = 0
                     /\ stus[1].arrival.time # 0
                     /\ rows[1].arrival_time # None /\ rows[1].delay_seconds = None

\* ---------------------------------------------------------------------------
\* C14
\* ---------------------------------------------------------------------------
\* C14: for every feed whose fetch succeeded and whose processing is finished,
\* every entity carrying a vehicle has its vehicle-position row under the
\* attempt's id, and in that row latitude, longitude, bearing and speed are
\* all null when the vehicle has no position sub-message and carry the
\* position's values when it has one.
C14_NoPositionIsNull ==
    \A f \in finished :
        result[f].status = "ok" =>
            LET es == Accepted(result[f].message[1], "vehicle")
            IN  \A i \in AttemptsOf(f, clock) :
                    LET rows == RowSeq("realtime_vehicle_positions", db[i].feed_log_id)
                    IN  /\ Len(rows) = Len(es)
                        /\ \A j \in 1..Len(rows) :
                              HasField(es[j], "vehicle") =>
                                  LET v == es[j].vehicle
                                  IN  /\ rows[j].vehicle_id = v.vehicle.id
                                      /\ IF v.has_position
                                         THEN /\ rows[j].lat = Some(v.position.latitude)
                                              /\ rows[j].lon = Some(v.position.longitude)
                                              /\ rows[j].bearing = Some(v.position.bearing)
                                              /\ rows[j].speed = Some(v.position.speed)
                                         ELSE /\ rows[j].lat = None
                                              /\ rows[j].lon = None
                                              /\ rows[j].bearing = None
                                              /\ rows[j].speed = None

\* ---------------------------------------------------------------------------
\* C15
\* ---------------------------------------------------------------------------
\* C15: for every feed whose fetch succeeded and whose processing is finished,
\* every entity carrying an alert has its service-alert row under the
\* attempt's id; the row's header text (description text) is the text of the
\* first translation of the alert's header (description) when there is at
\* least one translation and the empty string when there is none.
C15_FirstTranslationOrEmpty ==
    \A f \in finished :
        result[f].status = "ok" =>
            LET es == Accepted(result[f].message[1], "alert")
            IN  \A i \in AttemptsOf(f, clock) :
                    LET rows == RowSeq("realtime_service_alerts", db[i].feed_log_id)
                    IN  /\ Len(rows) = Len(es)
                        /\ \A j \in 1..Len(rows) :
                              HasField(es[j], "alert") =>
                                  LET h == es[j].alert.header_text.translation
                                      d == es[j].alert.description_text.translation
                                  IN  /\ rows[j].header_text
                                            = (IF Len(h) >= 1 THEN h[1].text ELSE "")
                                      /\ rows[j].description_text
                                            = (IF Len(d) >= 1 THEN d[1].text ELSE "")

\* A finished feed with an alert whose header has two translations and whose
\* description has none: the row holds the first header text and an empty
\* description.
C15_Witness ==
    \E f \in finished :
        /\ result[f].status = "ok"
        /\ \E i \in AttemptsOf(f, clock) :
              LET rows == RowSeq("realtime_service_alerts", db[i].feed_log_id)
                  es == result[f].message[1].entity
              IN  /\ Len(es) = 1 /\ Len(rows) = 1
                  /\ HasField(es[1], "alert")
                  /\ Len(es[1].alert.header_text.translation) = 2
                  /\ Len(es[1].alert.description_text.translation) = 0
                  /\ rows[1].header_text = "Delays"
                  /\ rows[1].description_text = ""

\* ---------------------------------------------------------------------------
\* C16
\* ---------------------------------------------------------------------------
\* What is stored for an epoch-seconds value: null for zero, the UTC calendar
\* time otherwise.
Stored(ts) == IF ts = 0 THEN None ELSE Some(utcfromtimestamp(ts))

EpochOrigin == [day |-> 0, second |-> 0]

\* C16: the header timestamp in the FetchAttempt row of a feed whose fetch
\* succeeded, the arrival and departure times in the stop-time rows and the
\* position timestamp in the vehicle-position rows of a finished feed are null
\* when the epoch-seconds value of the message is zero or absent and its
\* calendar time when it is non-zero; none of them is the epoch origin.
C16_ZeroEpochIsNull ==
    \A f \in Feeds :
        result[f].status = "ok" =>
            LET m == result[f].message[1]
                stus == StusOf(m)
                es == Accepted(m, "vehicle")
            IN  \A i \in AttemptsOf(f, clock) :
                    LET stops == RowSeq("realtime_stop_time_updates", db[i].feed_log_id)
                        vehicles == RowSeq("realtime_vehicle_positions", db[i].feed_log_id)
                    IN  /\ db[i].feed_timestamp = Stored(m.header.timestamp)
                        /\ db[i].feed_timestamp # Some(EpochOrigin)
                        /\ \A j \in 1..Len(stops) :
                              /\ stops[j].arrival_time = Stored(stus[j].arrival.time)
                              /\ stops[j].departure_time = Stored(stus[j].departure.time)
                              /\ stops[j].arrival_time # Some(EpochOrigin)
                              /\ stops[j].departure_time # Some(EpochOrigin)
                        /\ \A j \in 1..Len(vehicles) :
                              /\ vehicles[j].position_timestamp = Stored(es[j].vehicle.timestamp)
                              /\ vehicles[j].position_timestamp # Some(EpochOrigin)

\* A cycle in which one feed's message has no header timestamp, stored as
\* null, and a stop-time row holds the calendar time of 1704100000 as its
\* arrival time and null as its departure time.
C16_Witness ==
    /\ \E i \in 1..Len(db) :
          /\ db[i].table = FeedLogs
          /\ db[i].success
          /\ db[i].feed_timestamp = None
    /\ \E i \in 1..Len(db) :
          /\ db[i].table = "realtime_stop_time_updates"
          /\ db[i].arrival_time = Some([day |-> 19723, second |-> 32800])
          /\ db[i].departure_time = None

\* ---------------------------------------------------------------------------
\* C17
\* ---------------------------------------------------------------------------
\* C17: in every state, for every feed fetched with success in the current
\* cycle, every attempt row of it and every table, the committed rows of that
\* table under the attempt's id are either none or, in order, all the rows
\* normalised for that table from the feed's message.
C17_BatchAllOrNothing ==
    \A f \in Feeds :
        result[f].status = "ok" =>
            \A i \in AttemptsOf(f, clock) :
                \A k \in 1..Len(Tables) :
                    LET rows == RowSeq(Tables[k], db[i].feed_log_id)
                    IN  \/ rows = << >>
                        \/ rows = BatchRows(Tables[k], db[i].feed_log_id,
                                            result[f].message[1])

\* The connection is closed after the insert or the commit of a batch of two
\* or more rows failed, while an earlier batch of the same feed is committed
\* whole: none of the rows of the failed batch is committed.
C17_Witness ==
    /\ pc = "sleep"
    /\ raised # None
    /\ raised[1].op \in BatchOps
    /\ LET f == raised[1].feed
           k == BatchOf(raised[1].op)
       IN  /\ result[f].status = "ok"
           /\ \E i \in AttemptsOf(f, clock) :
                 /\ Len(BatchRows(Tables[k], db[i].feed_log_id, result[f].message[1])) >= 2
                 /\ RowSeq(Tables[k], db[i].feed_log_id) = << >>
                 /\ \E j \in 1..(k - 1) : RowSeq(Tables[j], db[i].feed_log_id) # << >>

\* ---------------------------------------------------------------------------
\* C18
\* ---------------------------------------------------------------------------
\* Positions in db of the FetchAttempt rows.
AttemptRows == {i \in 1..Len(db) : db[i].table = FeedLogs}

\* C18: a fetch begins only when nothing of an earlier feed is left
\* uncommitted and every earlier feed of the cycle is through its loop body;
\* in the committed rows, the FetchAttempt rows of one cycle follow each other
\* in catalog order, and every entity row of an attempt lies after its
\* FetchAttempt row and before the next FetchAttempt row.
C18_FeedsSequential ==
    /\ pc = "fetch" => pending = << >> /\ finished = 1..(feedIdx - 1)
    /\ \A p \in AttemptRows :
          /\ \A x \in EntityRowsOf(db[p].feed_log_id) : p < x
          /\ \A q \in AttemptRows :
                p < q =>
                    /\ \A x \in EntityRowsOf(db[p].feed_log_id) : x < q
                    /\ db[p].fetched_at = db[q].fetched_at
                          => db[p].feed_name < db[q].feed_name

\* Two feeds of one cycle have both committed entity rows: those of the first
\* lie between the two FetchAttempt rows, those of the second after both.
C18_Witness ==
    \E p \in AttemptRows, q \in AttemptRows :
        /\ p < q
        /\ db[p].fetched_at = db[q].fetched_at
        /\ EntityRowsOf(db[p].feed_log_id) # {}
        /\ EntityRowsOf(db[q].feed_log_id) # {}

\* ---------------------------------------------------------------------------
\* C19
\* ---------------------------------------------------------------------------
\* C19: every committed stop-time row has, earlier in commit order, a
\* committed trip-update row with the same attempt id and the same trip id.
C19_StopRowHasTripRow ==
    \A x \in 1..Len(db) :
        db[x].table = "realtime_stop_time_updates" =>
            \E y \in 1..(x - 1) :
                /\ db[y].table = "realtime_trip_updates"
                /\ db[y].feed_log_id = db[x].feed_log_id
                /\ db[y].trip_id = db[x].trip_id

\* The stop-time batch of a feed failed and the connection is closed: the
\* trip-update row of the feed's trip is committed, none of its stop-time
\* rows is.
C19_Witness ==
    /\ pc = "sleep"
    /\ raised # None
    /\ raised[1].op \in {"stop_time_updates_insert", "stop_time_updates_commit"}
    /\ \E y \in 1..Len(db) :
          /\ db[y].table = "realtime_trip_updates"
          /\ db[y].trip_id = "T1"
          /\ RowsOf("realtime_stop_time_updates", db[y].feed_log_id) = {}

\* ---------------------------------------------------------------------------
\* C20
\* ---------------------------------------------------------------------------
\* C20: for every feed whose fetch succeeded and whose processing is finished,
\* delay_seconds of each stop-time row is the arrival delay of its stop-time
\* update when that is non-zero and null otherwise, whatever the departure
\* delay is; a departure delay that differs from the arrival delay is in no
\* column of the row.
C20_DelayFromArrivalOnly ==
    \A f \in finished :
        result[f].status = "ok" =>
            LET stus == StusOf(result[f].message[1])
            IN  \A i \in AttemptsOf(f, clock) :
                    LET rows == RowSeq("realtime_stop_time_updates", db[i].feed_log_id)
                    IN  \A j \in 1..Len(rows) :
                            /\ rows[j].delay_seconds
                                  = (IF stus[j].arrival.delay # 0
                                     THEN Some(stus[j].arrival.delay) ELSE None)
                            /\ stus[j].departure.delay # stus[j].arrival.delay
                                  => rows[j].delay_seconds # Some(stus[j].departure.delay)
                            /\ DOMAIN rows[j] =
                                  {"table", "feed_log_id", "trip_id", "stop_id", "stop_sequence",
                                   "arrival_time", "departure_time", "delay_seconds"}

\* A finished feed whose stop-time update has a departure delay of 45 and an
\* arrival without delay: the row's delay_seconds is null.
C20_Witness ==
    \E f \in finished :
        /\ result[f].status = "ok"
        /\ \E i \in AttemptsOf(f, clock) :
              LET rows == RowSeq("realtime_stop_time_updates", db[i].feed_log_id)
                  stus == StusOf(result[f].message[1])
              IN  /\ Len(stus) = 1 /\ Len(rows) = 1
                  /\ stus[1].has_departure /\ stus[1].departure.delay = 45
                  /\ stus[1].has_arrival /\ stus[1].arrival.delay = 0
                  /\ rows[1].delay_seconds = None

\* ===========================================================================
\* mta_elevator_collector.py: the equipment-outage collector
\* ===========================================================================
\* The feeds in the order main() fetches them: (A), (B), (C).
ELEVATOR_FEEDS ==
    <<[feed_name |-> "ElevatorCurrent", feed_url |-> "nyct_ene.json"],
      [feed_name |-> "ElevatorUpcoming", feed_url |-> "nyct_ene_upcoming.json"],
      [feed_name |-> "ElevatorEquip", feed_url |-> "nyct_ene_equipments.json"]>>

ElevatorFeeds == 1..Len(ELEVATOR_FEEDS)

\* str.strip() on the strings the sample items carry.
strip(s) ==
    CASE s = " Times Sq-42 St " -> "Times Sq-42 St"
      [] s = "EL " -> "EL"
      [] s = " 10/13/2023 10:34:00 PM" -> "10/13/2023 10:34:00 PM"
      [] OTHER -> s

\* datetime.strptime(dt_str, fmt) for the two formats of parse_datetime, on
\* the stripped sample strings: the datetime, or None for a ValueError under
\* both formats.
strptime(s) ==
    CASE s = "10/13/2023 10:34:00 PM" ->
            Some([year |-> 2023, month |-> 10, day |-> 13,
                  hour |-> 22, minute |-> 34, second |-> 0])
      [] s = "10/14/2023 06:00:00" ->
            Some([year |-> 2023, month |-> 10, day |-> 14,
                  hour |-> 6, minute |-> 0, second |-> 0])
      [] OTHER -> None

\* parse_datetime(dt_str): dt_str is None for a key that is absent.
parse_datetime(dt_str) ==
    IF dt_str = None \/ dt_str[1] = "" THEN None ELSE strptime(strip(dt_str[1]))

\* float(s) on the sample strings, in hundred-thousandths of a degree:
\* ok is FALSE for a ValueError.
float(s) ==
    CASE s = "40.75529" -> [ok |-> TRUE, value |-> 4075529]
      [] s = "-73.98726" -> [ok |-> TRUE, value |-> -7398726]
      [] OTHER -> [ok |-> FALSE, value |-> 0]

\* The keys of an item the collectors read.
ItemKeys ==
    {"station", "borough", "trainno", "equipment", "equipmenttype", "ADA", "reason",
     "serving", "isupcomingoutage", "ismaintenanceoutage", "outagedate",
     "estimatedreturntoservice", "latitude", "longitude", "status"}

\* A JSON object of an "outages" or "equipments" array: `present' maps the
\* keys it has to their strings, `nulls' are the keys whose value is null.
Item(present, nulls) ==
    [k \in ItemKeys |->
        IF k \in nulls THEN [null |-> TRUE, value |-> None]
        ELSE IF k \in DOMAIN present THEN [null |-> FALSE, value |-> Some(present[k])]
        ELSE [null |-> FALSE, value |-> None]]

\* item.get(key, default): ok is FALSE when the value is null, on which
\* .strip() raises AttributeError.
get(item, key, default) ==
    IF item[key].null THEN [ok |-> FALSE, value |-> ""]
    ELSE IF item[key].value = None THEN [ok |-> TRUE, value |-> default]
    ELSE [ok |-> TRUE, value |-> item[key].value[1]]

\* item.get(key) for parse_datetime and for the latitude and longitude: None
\* for an absent key and for null.
get_opt(item, key) == IF item[key].null THEN None ELSE item[key].value

\* ---------------------------------------------------------------------------
\* The JSON documents the endpoints deliver
\* ---------------------------------------------------------------------------
\* A top-level object with its "outages" and "equipments" members (None: no
\* such key), or a top-level array.
JsonObject(outages, equipments) ==
    [kind |-> "object", outages |-> outages, equipments |-> equipments]

JsonArray == [kind |-> "array", outages |-> None, equipments |-> None]

\* {}
EmptyObject == JsonObject(None, None)

OutageItem ==
    Item([station |-> " Times Sq-42 St ", borough |-> "MN", trainno |-> "1/2/3",
          equipment |-> "EL226", equipmenttype |-> "EL ", ADA |-> "Y",
          reason |-> "Repair", serving |-> "mezzanine",
          isupcomingoutage |-> "N", ismaintenanceoutage |-> "N",
          outagedate |-> " 10/13/2023 10:34:00 PM",
          estimatedreturntoservice |-> "10/14/2023 06:00:00"], {})

\* An item with an equipment id only, and a date no format matches.
SparseOutageItem ==
    Item([equipment |-> "ES101", outagedate |-> "2023-10-13T22:34:00"], {})

\* An item whose station is null.
NullStationItem == Item([equipment |-> "EL300"], {"station"})

EquipmentItem ==
    Item([equipment |-> "EL226", equipmenttype |-> "EL ", station |-> " Times Sq-42 St ",
          borough |-> "MN", trainno |-> "1/2/3", latitude |-> "40.75529",
          longitude |-> "-73.98726", ADA |-> "Y", serving |-> "mezzanine"], {})

\* An item without coordinates, and one whose latitude is not a number.
NoCoordinatesItem == Item([equipment |-> "ES101"], {"latitude"})
BadLatitudeItem == Item([equipment |-> "EL300", latitude |-> "n/a"], {})

OutageDocuments ==
    {EmptyObject, JsonArray,
     JsonObject(Some(<< >>), None),
     JsonObject(Some(<<OutageItem>>), None),
     JsonObject(Some(<<OutageItem, SparseOutageItem>>), None),
     JsonObject(Some(<<OutageItem, NullStationItem>>), None)}

EquipmentDocuments ==
    {EmptyObject, JsonArray,
     JsonObject(None, Some(<<EquipmentItem>>)),
     JsonObject(None, Some(<<EquipmentItem, NoCoordinatesItem>>)),
     JsonObject(None, Some(<<EquipmentItem, BadLatitudeItem>>))}

\* What the endpoint of feed f may answer.
ElevatorFetchResults(f) ==
    {[status |-> e, message |-> None] : e \in FetchErrors}
        \cup {[status |-> "ok", message |-> Some(d)] :
                    d \in IF ELEVATOR_FEEDS[f].feed_name = "ElevatorEquip"
                           THEN EquipmentDocuments ELSE OutageDocuments}

\* ---------------------------------------------------------------------------
\* 4) Outages: the records process_outages builds
\* ---------------------------------------------------------------------------
feed_type(feed_name) ==
    IF feed_name = "ElevatorCurrent" THEN "CURRENT"
    ELSE IF feed_name = "ElevatorUpcoming" THEN "UPCOMING"
    ELSE "UNKNOWN"

OutageStripped ==
    {"station", "borough", "trainno", "equipment", "equipmenttype", "ADA", "reason",
     "serving", "isupcomingoutage", "ismaintenanceoutage"}

OutageRecord(feed_name, item) ==
    [table |-> "elevator_outages",
     feed_type |-> feed_type(feed_name),
     station |-> strip(get(item, "station", "").value),
     borough |-> strip(get(item, "borough", "").value),
     trainno |-> strip(get(item, "trainno", "").value),
     equipment_id |-> strip(get(item, "equipment", "").value),
     equipment_type |-> strip(get(item, "equipmenttype", "").value),
     ada |-> strip(get(item, "ADA", "N").value),
     outage_date |-> parse_datetime(get_opt(item, "outagedate")),
     estimated_return |-> parse_datetime(get_opt(item, "estimatedreturntoservice")),
     reason |-> strip(get(item, "reason", "").value),
     serving |-> strip(get(item, "serving", "").value),
     is_upcoming_outage |-> strip(get(item, "isupcomingoutage", "N").value),
     is_maintenance_outage |-> strip(get(item, "ismaintenanceoutage", "N").value)]

\* process_outages up to `if records:': raises is TRUE when the code raises
\* before it has its records (.get on an array, .strip() on null).
outage_records(feed_name, outages_json) ==
    IF outages_json.kind # "object" THEN [raises |-> TRUE, records |-> << >>]
    ELSE LET outages_list ==
                 IF outages_json.outages = None THEN << >> ELSE outages_json.outages[1]
         IN  IF ~SeqTruthy(outages_list) THEN [raises |-> FALSE, records |-> << >>]
             ELSE IF \E n \in 1..Len(outages_list), k \in OutageStripped :
                          ~get(outages_list[n], k, "").ok
             THEN [raises |-> TRUE, records |-> << >>]
             ELSE [raises |-> FALSE,
                   records |-> [n \in 1..Len(outages_list) |->
                                   OutageRecord(feed_name, outages_list[n])]]

\* ---------------------------------------------------------------------------
\* 5) Equipment: the records process_equipment builds
\* ---------------------------------------------------------------------------
EquipmentStripped ==
    {"equipment", "equipmenttype", "station", "borough", "trainno", "ADA", "serving",
     "status"}

\* lat = float(lat_str) if lat_str else None
coordinate(item, key) ==
    LET s == get_opt(item, key)
    IN  IF s = None \/ s[1] = "" THEN [ok |-> TRUE, value |-> None]
        ELSE [ok |-> float(s[1]).ok, value |-> Some(float(s[1]).value)]

EquipmentRecord(item) ==
    [table |-> "elevator_equipment",
     equipment_id |-> strip(get(item, "equipment", "").value),
     equipment_type |-> strip(get(item, "equipmenttype", "").value),
     station |-> strip(get(item, "station", "").value),
     borough |-> strip(get(item, "borough", "").value),
     trainno |-> strip(get(item, "trainno", "").value),
     latitude |-> coordinate(item, "latitude").value,
     longitude |-> coordinate(item, "longitude").value,
     ada |-> strip(get(item, "ADA", "N").value),
     serving |-> strip(get(item, "serving", "").value),
     status |-> strip(get(item, "status", "").value),
     notes |-> ""]

equipment_records(equip_json) ==
    IF equip_json.kind # "object" THEN [raises |-> TRUE, records |-> << >>]
    ELSE LET equipment_list ==
                 IF equip_json.equipments = None THEN << >> ELSE equip_json.equipments[1]
         IN  IF ~SeqTruthy(equipment_list) THEN [raises |-> FALSE, records |-> << >>]
             ELSE IF \E n \in 1..Len(equipment_list) :
                          \/ \E k \in EquipmentStripped : ~get(equipment_list[n], k, "").ok
                          \/ ~coordinate(equipment_list[n], "latitude").ok
                          \/ ~coordinate(equipment_list[n], "longitude").ok
             THEN [raises |-> TRUE, records |-> << >>]
             ELSE [raises |-> FALSE,
                   records |-> [n \in 1..Len(equipment_list) |->
                                   EquipmentRecord(equipment_list[n])]]

\* The records of the process_* call main() makes for feed f.
elevator_records(f, json) ==
    IF ELEVATOR_FEEDS[f].feed_name = "ElevatorEquip" THEN equipment_records(json)
    ELSE outage_records(ELEVATOR_FEEDS[f].feed_name, json)

\* ---------------------------------------------------------------------------
\* 7) main() of the collector, one run
\* ---------------------------------------------------------------------------
\* The state at the start of a run: no connection, nothing fetched, an empty
\* database.
ElevatorInit ==
    /\ pc = "elevator_connect"
    /\ clock = 0
    /\ conn = None
    /\ openConns = 0
    /\ feedIdx = 0
    /\ feed_message = None
    /\ feed_log_id = 0
    /\ nextId = 1
    /\ db = << >>
    /\ pending = << >>
    /\ result = [f \in ElevatorFeeds |-> NotFetched]
    /\ finished = {}
    /\ raised = None

\* A fetch_json_data without its try statement: the error propagates.
fetch_json_except_propagates(status) == "raise"

\* fetch_json_data: except Exception as e: print(...); return {}
fetch_json_except(status) == "return_empty"

\* An exception leaves the try block of main(): the finally clause runs.
ElevatorRaise(op) ==
    /\ pc' = "elevator_close"
    /\ raised' = Some([feed |-> feedIdx, op |-> op])

\* A process_* call has returned: main() goes on to feed (B) or (C), or
\* leaves the try block.
ElevatorReturn ==
    /\ finished' = finished \cup {feedIdx}
    /\ raised' = raised
    /\ IF feedIdx < Len(ELEVATOR_FEEDS)
       THEN feedIdx' = feedIdx + 1 /\ pc' = "elevator_fetch"
       ELSE feedIdx' = feedIdx /\ pc' = "elevator_close"

\* conn = get_db_connection(), before the try block: a failed connect ends
\* the run with its exception.
elevator_get_db_connection ==
    /\ pc = "elevator_connect"
    /\ \E ok \in BOOLEAN :
          IF ok
          THEN /\ conn' = Some("open")
               /\ openConns' = openConns + 1
               /\ feedIdx' = 1
               /\ pc' = "elevator_fetch"
               /\ raised' = raised
          ELSE /\ pc' = "elevator_raised"
               /\ raised' = Some([feed |-> 0, op |-> "connect"])
               /\ UNCHANGED <<conn, openConns, feedIdx>>
    /\ UNCHANGED <<clock, feed_message, feed_log_id, nextId, db, pending, result,
                   finished>>

\* <feed>_json = fetch_json_data(ELEVATOR_FEEDS[<feed>])
fetch_json_data ==
    /\ pc = "elevator_fetch"
    /\ \E r \in ElevatorFetchResults(feedIdx) :
          /\ result' = [result EXCEPT ![feedIdx] = r]
          /\ IF r.status = "ok"
             THEN /\ feed_message' = r.message
                  /\ pc' = "elevator_process"
                  /\ raised' = raised
             ELSE IF fetch_json_except(r.status) = "return_empty"
             THEN /\ feed_message' = Some(EmptyObject)
                  /\ pc' = "elevator_process"
                  /\ raised' = raised
             ELSE /\ ElevatorRaise("fetch")
                  /\ feed_message' = feed_message
    /\ UNCHANGED <<clock, conn, openConns, feedIdx, feed_log_id, nextId, db, pending,
                   finished>>

\* process_outages / process_equipment up to `if records:'
elevator_process ==
    /\ pc = "elevator_process"
    /\ LET built == elevator_records(feedIdx, feed_message[1])
       IN  IF built.raises
           THEN ElevatorRaise("process") /\ UNCHANGED <<finished, feedIdx>>
           ELSE IF SeqTruthy(built.records)
           THEN pc' = "elevator_insert" /\ UNCHANGED <<raised, finished, feedIdx>>
           ELSE ElevatorReturn
    /\ UNCHANGED <<clock, conn, openConns, feed_message, feed_log_id, nextId, db,
                   pending, result>>

\* execute_values(cur, sql, records)
elevator_execute_values ==
    /\ pc = "elevator_insert"
    /\ \E ok \in BOOLEAN :
          IF ok
          THEN /\ pending' = pending \o elevator_records(feedIdx, feed_message[1]).records
               /\ pc' = "elevator_commit"
               /\ raised' = raised
          ELSE /\ ElevatorRaise("insert")
               /\ pending' = pending
    /\ UNCHANGED <<clock, conn, openConns, feedIdx, feed_message, feed_log_id, nextId,
                   db, result, finished>>

\* conn.commit()
elevator_commit ==
    /\ pc = "elevator_commit"
    /\ \E ok \in BOOLEAN :
          IF ok
          THEN /\ db' = db \o pending
               /\ pending' = << >>
               /\ ElevatorReturn
          ELSE /\ ElevatorRaise("commit")
               /\ UNCHANGED <<db, pending, finished, feedIdx>>
    /\ UNCHANGED <<clock, conn, openConns, feed_message, feed_log_id, nextId, result>>

\* finally: conn.close(); an exception on its way goes on out of main().
elevator_close ==
    /\ pc = "elevator_close"
    /\ conn' = Some("closed")
    /\ openConns' = openConns - 1
    /\ pending' = << >>
    /\ pc' = IF raised = None THEN "elevator_done" ELSE "elevator_raised"
    /\ UNCHANGED <<clock, feedIdx, feed_message, feed_log_id, nextId, db, result,
                   finished, raised>>

ElevatorNext ==
    \/ elevator_get_db_connection
    \/ fetch_json_data
    \/ elevator_process
    \/ elevator_execute_values
    \/ elevator_commit
    \/ elevator_close

ElevatorSpec == ElevatorInit /\ [][ElevatorNext]_vars

\* ---------------------------------------------------------------------------
\* C21
\* ---------------------------------------------------------------------------
\* The feed a row of the collector comes from.
FeedOfRow(r) ==
    IF r.table = "elevator_equipment" THEN 3
    ELSE IF r.feed_type = "CURRENT" THEN 1 ELSE 2

ElevatorRunEnded == pc \in {"elevator_done", "elevator_raised"}

ElevatorDbOps == {"insert", "commit"}

\* C21: in a run of the collector the feeds are fetched in the order current
\* outages, upcoming outages, equipment, and their rows are committed in that
\* order; a feed whose fetch failed is processed as the empty object, has no
\* row written or pending, raises nothing, and at the end of the run it is
\* through its process call and the feed after it has been fetched; once an
\* insert or a commit of a feed has failed, no later feed is fetched,
\* processed or written; and when the run has ended after a successful
\* connect, the connection is closed and none is open.
C21_ElevatorRun ==
    /\ \A f \in ElevatorFeeds, g \in ElevatorFeeds :
          g < f /\ result[f] # NotFetched => result[g] # NotFetched
    /\ \A x \in 1..Len(db), y \in 1..Len(db) :
          x < y => FeedOfRow(db[x]) <= FeedOfRow(db[y])
    /\ \A f \in ElevatorFeeds :
          result[f].status \in FetchErrors =>
              /\ pc = "elevator_process" /\ feedIdx = f => feed_message = Some(EmptyObject)
              /\ \A x \in 1..Len(db) : FeedOfRow(db[x]) # f
              /\ \A x \in 1..Len(pending) : FeedOfRow(pending[x]) # f
              /\ raised # None => raised[1].feed # f
              /\ ElevatorRunEnded =>
                    /\ f \in finished
                    /\ f < Len(ELEVATOR_FEEDS) => result[f + 1] # NotFetched
    /\ raised # None =>
          (raised[1].op \in ElevatorDbOps =>
              \A g \in ElevatorFeeds :
                  g > raised[1].feed =>
                      /\ result[g] = NotFetched
                      /\ g \notin finished
                      /\ \A x \in 1..Len(db) : FeedOfRow(db[x]) # g)
    /\ ElevatorRunEnded =>
          /\ openConns = 0
          /\ feedIdx > 0 => conn = Some("closed")

\* A run has ended in which the fetch of the current outages failed, the
\* upcoming outages were fetched and the commit of their rows failed: the
\* equipment feed was never fetched, nothing is committed and the connection
\* is closed.
C21_Witness ==
    /\ pc = "elevator_raised"
    /\ result[1].status \in FetchErrors
    /\ 1 \in finished
    /\ result[2].status = "ok"
    /\ raised = Some([feed |-> 2, op |-> "commit"])
    /\ result[3] = NotFetched
    /\ db = << >>
    /\ conn = Some("closed")

====
